---- MODULE Spec2Model ----
(***************************************************************************)
(* Strip reordering of image_reconstruction.py: the row distance, the      *)
(* bottom strip selector, the upward chainer, build_from_bottom (with its  *)
(* doubly-linked list) and merge_ordered_strips.                           *)
(*                                                                         *)
(* Objects are references: a strip is an identifier 1..n into the heap     *)
(* `pixels`, which holds each Image's rows.  Lists hold identifiers, so    *)
(* `other != candidate` and list.remove compare object identity (Python's  *)
(* default for a class that defines no __eq__).  Indices are 1-based here  *)
(* and 0-based in the source.                                              *)
(***************************************************************************)
EXTENDS Integers, Sequences, FiniteSets, TLC

\* ---------------------------------------------------------------- bounds
MaxStrips == 3
RowWidth == 2
MaxHeight == 2
MaxWidth == 2

\* ------------------------------------------------------- python values
\* Python's None, as an object reference that is no strip and no node.
None == 0
\* float("inf"), the initial best_distance: larger than every distance.
Inf == -1

NoExc == "none"
Returned(v) == [exc |-> NoExc, val |-> v]
Raised(e) == [exc |-> e, val |-> None]

\* ---------------------------------------------------------------- pixels
Pixel(red, green, blue) == [r |-> red, g |-> green, b |-> blue]
get_r(p) == p.r
get_g(p) == p.g
get_b(p) == p.b

Black == Pixel(0, 0, 0)
White == Pixel(255, 255, 255)
GrayOf(level) == Pixel(level, level, level)
Gray == GrayOf(128)
Red == Pixel(255, 0, 0)
Blue == Pixel(0, 0, 255)

VARIABLES
    pixels,         \* heap: strip identifier -> its rows (Image.pixels)
    input,          \* the list as the caller built it (history, never written)
    image_strips,   \* the caller's list object, which build_from_bottom mutates
    linked,         \* the LinkedList: [nodes, head, tail]
    bottom_strip,   \* local of build_from_bottom
    best_match,     \* local of build_from_bottom
    ordered,        \* build_from_bottom's return value / merge's argument
    final_image,    \* merge_ordered_strips' image: [width, height, px]
    writes,         \* history: how often set_pixel wrote each pixel of final_image
    current_height, \* local of merge_ordered_strips
    k,              \* position of merge's `for strip in ordered_strips`
    pc,             \* the statement about to run
    exc,            \* the exception that ended the run, or NoExc
    run,            \* 1: first run of the pipeline, 2: the run repeated
    first_image,    \* the first run's image, kept by the caller
    iterations,     \* history: completed iterations of the chaining loop
    broke,          \* history: the loop ended by `break`
    call,           \* a direct call of one of the pure functions
    ret             \* and what it returned

vars ==
    <<pixels, input, image_strips, linked, bottom_strip, best_match, ordered,
      final_image, writes, current_height, k, pc, exc, run, first_image,
      iterations, broke, call, ret>>

\* ------------------------------------------------------------ Image API
get_height(strip) == Len(pixels[strip])
get_width(strip) == Len(pixels[strip][1])
get_pixel(strip, row, col) == pixels[strip][row + 1][col + 1]
FirstRow(strip) == pixels[strip][1]
LastRow(strip) == pixels[strip][Len(pixels[strip])]

Blank == Pixel(-1, -1, -1)
Image(width, height) ==
    [width |-> width, height |-> height,
     px |-> [row \in 1..height |-> [col \in 1..width |-> Blank]]]
NoImage == Image(0, 0)

\* ----------------------------------------------------------- list helpers
Contains(list, x) == \E i \in 1..Len(list) : list[i] = x
IndexOf(list, x) == CHOOSE i \in 1..Len(list) : list[i] = x /\ \A j \in 1..(i - 1) : list[j] # x
\* A remove that drops the last element, whatever x is (list.pop()).
ListRemoveLast(list, x) == [i \in 1..(Len(list) - 1) |-> list[i]]

\* list.remove(x): drops the first element equal to x (the caller checks Contains).
ListRemove(list, x) ==
    [i \in 1..(Len(list) - 1) |-> IF i < IndexOf(list, x) THEN list[i] ELSE list[i + 1]]

RECURSIVE SumFirst(_, _)
SumFirst(s, n) == IF n = 0 THEN 0 ELSE SumFirst(s, n - 1) + s[n]
sum(s) == SumFirst(s, Len(s))

RECURSIVE MinFirst(_, _)
MinFirst(s, n) ==
    IF n = 1 THEN s[1]
    ELSE LET rest == MinFirst(s, n - 1)
         IN IF s[n] < rest THEN s[n] ELSE rest
RECURSIVE MaxFirst(_, _)
MaxFirst(s, n) ==
    IF n = 1 THEN s[1]
    ELSE LET rest == MaxFirst(s, n - 1)
         IN IF s[n] > rest THEN s[n] ELSE rest
\* max in place of min.
max(s) == IF Len(s) = 0 THEN Raised("ValueError") ELSE Returned(MaxFirst(s, Len(s)))

\* min(generator): ValueError on an empty one.
min(s) == IF Len(s) = 0 THEN Raised("ValueError") ELSE Returned(MinFirst(s, Len(s)))

\* ------------------------------------------------------ rows_comparison
zip(rowA, rowB) ==
    [i \in 1..(IF Len(rowA) <= Len(rowB) THEN Len(rowA) ELSE Len(rowB)) |-> <<rowA[i], rowB[i]>>]

\* The differences summed without squaring them.
PixelDiffNoSquare(p1, p2) ==
    (get_r(p1) - get_r(p2)) + (get_g(p1) - get_g(p2)) + (get_b(p1) - get_b(p2))

Squared(x) == x * x
PixelDiff(p1, p2) ==
    Squared(get_r(p1) - get_r(p2)) + Squared(get_g(p1) - get_g(p2)) + Squared(get_b(p1) - get_b(p2))

rows_comparison(rowA, rowB) ==
    LET pairs == zip(rowA, rowB)
    IN sum([i \in 1..Len(pairs) |-> PixelDiff(pairs[i][1], pairs[i][2])])

\* ---------------------------------------------------- find_bottom_strip
\* The generator of line 116-119: the other strips, in list order.
Others(strips, candidate) == SelectSeq(strips, LAMBDA other : other # candidate)

BestMatchScores(strips, candidate) ==
    LET others == Others(strips, candidate)
    IN [j \in 1..Len(others) |-> rows_comparison(LastRow(candidate), FirstRow(others[j]))]

\* Line 122 with >= for >: the last of the tied strips wins.
IsWorseOrEqual(best_match_score, worst_match_score) == best_match_score >= worst_match_score

\* Line 122.
IsWorse(best_match_score, worst_match_score) == best_match_score > worst_match_score

RECURSIVE BottomLoop(_, _, _, _)
BottomLoop(strips, i, best_strip, worst_match_score) ==
    IF i > Len(strips) THEN Returned(best_strip)
    ELSE LET candidate == strips[i]
             best_match_score == min(BestMatchScores(strips, candidate))
         IN IF best_match_score.exc # NoExc THEN best_match_score
            ELSE IF IsWorse(best_match_score.val, worst_match_score)
                 THEN BottomLoop(strips, i + 1, candidate, best_match_score.val)
                 ELSE BottomLoop(strips, i + 1, best_strip, worst_match_score)

find_bottom_strip(strips) == BottomLoop(strips, 1, None, -1)

\* ---------------------------------- find_most_similar_strip_for_upwards
\* Line 148 with <= for <: the last of the tied candidates wins.
IsCloserOrEqual(distance, best_distance) == best_distance = Inf \/ distance <= best_distance

\* Line 148 with best_distance started at 0 rather than infinity: nothing is closer.
IsCloserFromZero(distance, best_distance) == best_distance # Inf /\ distance < best_distance

\* Line 148: every distance is below float("inf").
IsCloser(distance, best_distance) == best_distance = Inf \/ distance < best_distance

RECURSIVE UpwardsLoop(_, _, _, _, _)
UpwardsLoop(current_top_row, candidate_strips, i, best, best_distance) ==
    IF i > Len(candidate_strips) THEN best
    ELSE LET candidate == candidate_strips[i]
             distance == rows_comparison(current_top_row, LastRow(candidate))
         IN IF IsCloser(distance, best_distance)
            THEN UpwardsLoop(current_top_row, candidate_strips, i + 1, candidate, distance)
            ELSE UpwardsLoop(current_top_row, candidate_strips, i + 1, best, best_distance)

find_most_similar_strip_for_upwards(current_top_strip, candidate_strips) ==
    UpwardsLoop(FirstRow(current_top_strip), candidate_strips, 1, None, Inf)

\* ------------------------------------------------------------ LinkedList
Node(strip) == [strip |-> strip, prev |-> None, next |-> None]
NoList == [nodes |-> <<>>, head |-> None, tail |-> None]
LinkedList(strip) == [nodes |-> <<Node(strip)>>, head |-> 1, tail |-> 1]

\* A prepend that links the new node but leaves self.head where it was.
prependKeepHead(list, strip) ==
    LET new_node == Len(list.nodes) + 1
    IN [nodes |-> Append([list.nodes EXCEPT ![list.head].prev = new_node],
                         [strip |-> strip, prev |-> None, next |-> list.head]),
        head |-> list.head,
        tail |-> list.tail]

prepend(list, strip) ==
    LET new_node == Len(list.nodes) + 1
    IN [nodes |-> Append([list.nodes EXCEPT ![list.head].prev = new_node],
                         [strip |-> strip, prev |-> None, next |-> list.head]),
        head |-> new_node,
        tail |-> list.tail]

RECURSIVE Walk(_, _, _)
Walk(list, current, ordered_strips) ==
    IF current = None THEN ordered_strips
    ELSE Walk(list, list.nodes[current].next, Append(ordered_strips, list.nodes[current].strip))

to_list(list) == Walk(list, list.head, <<>>)

\* ------------------------------------------------------ build_from_bottom
BuildLocals == <<bottom_strip, best_match>>
MergeVars == <<final_image, writes, current_height, k>>
CallVars == <<call, ret>>
Outer == <<pixels, input, run, first_image>>

\* Line 164: bottom_strip = find_bottom_strip(image_strips).
FindBottom ==
    /\ pc = "find_bottom"
    /\ LET r == find_bottom_strip(image_strips)
       IN IF r.exc # NoExc
          THEN /\ pc' = "raised"
               /\ exc' = r.exc
               /\ UNCHANGED bottom_strip
          ELSE /\ pc' = "remove_bottom"
               /\ bottom_strip' = r.val
               /\ UNCHANGED exc
    /\ UNCHANGED <<image_strips, linked, best_match, ordered, iterations, broke>>
    /\ UNCHANGED <<Outer, MergeVars, CallVars>>

\* Line 165: image_strips.remove(bottom_strip); ValueError when it is not in the list.
RemoveBottom ==
    /\ pc = "remove_bottom"
    /\ IF Contains(image_strips, bottom_strip)
       THEN /\ image_strips' = ListRemove(image_strips, bottom_strip)
            /\ pc' = "new_list"
            /\ UNCHANGED exc
       ELSE /\ pc' = "raised"
            /\ exc' = "ValueError"
            /\ UNCHANGED image_strips
    /\ UNCHANGED <<linked, BuildLocals, ordered, iterations, broke>>
    /\ UNCHANGED <<Outer, MergeVars, CallVars>>

\* Line 168: linked = LinkedList(bottom_strip).
NewList ==
    /\ pc = "new_list"
    /\ linked' = LinkedList(bottom_strip)
    /\ pc' = "loop"
    /\ UNCHANGED <<image_strips, BuildLocals, ordered, exc, iterations, broke>>
    /\ UNCHANGED <<Outer, MergeVars, CallVars>>

\* Lines 171-175: the loop guard, the search for the strip above the head, and
\* the break when the search returns None.
LoopHead ==
    /\ pc = "loop"
    /\ IF Len(image_strips) = 0
       THEN /\ pc' = "return"
            /\ UNCHANGED <<best_match, broke>>
       ELSE LET current_top_strip == linked.nodes[linked.head].strip
                found == find_most_similar_strip_for_upwards(current_top_strip, image_strips)
            IN /\ best_match' = found
               /\ IF found = None
                  THEN pc' = "return" /\ broke' = TRUE
                  ELSE pc' = "prepend" /\ UNCHANGED broke
    /\ UNCHANGED <<image_strips, linked, bottom_strip, ordered, exc, iterations>>
    /\ UNCHANGED <<Outer, MergeVars, CallVars>>

\* Line 176: linked.prepend(best_match).
Prepend ==
    /\ pc = "prepend"
    /\ linked' = prepend(linked, best_match)
    /\ pc' = "remove_match"
    /\ UNCHANGED <<image_strips, BuildLocals, ordered, exc, iterations, broke>>
    /\ UNCHANGED <<Outer, MergeVars, CallVars>>

\* Line 177: image_strips.remove(best_match); the iteration is complete.
RemoveMatch ==
    /\ pc = "remove_match"
    /\ IF Contains(image_strips, best_match)
       THEN /\ image_strips' = ListRemove(image_strips, best_match)
            /\ pc' = "loop"
            /\ iterations' = iterations + 1
            /\ UNCHANGED exc
       ELSE /\ pc' = "raised"
            /\ exc' = "ValueError"
            /\ UNCHANGED <<image_strips, iterations>>
    /\ UNCHANGED <<linked, BuildLocals, ordered, broke>>
    /\ UNCHANGED <<Outer, MergeVars, CallVars>>

\* Line 179: return linked.to_list().
Return ==
    /\ pc = "return"
    /\ ordered' = to_list(linked)
    /\ pc' = "built"
    /\ UNCHANGED <<image_strips, linked, BuildLocals, exc, iterations, broke>>
    /\ UNCHANGED <<Outer, MergeVars, CallVars>>

\* --------------------------------------------------- merge_ordered_strips
Heights(strips) == [i \in 1..Len(strips) |-> get_height(strips[i])]

\* The destination row without current_height added.
DestRowNoOffset(height_so_far, row) == row

\* The destination row of set_pixel, line 197.
DestRow(height_so_far, row) == height_so_far + row

\* final_image.set_pixel(DestRow, col, strip.get_pixel(row, col)) for every row
\* and col of `strip` (lines 195-197), on the image and on the write counts.
CopyStrip(image, strip, height_so_far) ==
    LET Src(r, c) ==
            {rc \in (0..(get_height(strip) - 1)) \X (0..(get_width(strip) - 1)) :
                DestRow(height_so_far, rc[1]) = r - 1 /\ rc[2] = c - 1}
        Last(r, c) == CHOOSE rc \in Src(r, c) : \A o \in Src(r, c) : o[1] <= rc[1]
    IN [image EXCEPT !.px =
            [r \in 1..image.height |-> [c \in 1..image.width |->
                IF Src(r, c) = {} THEN image.px[r][c]
                ELSE get_pixel(strip, Last(r, c)[1], Last(r, c)[2])]]]

CountWrites(image, counts, strip, height_so_far) ==
    [r \in 1..image.height |-> [c \in 1..image.width |->
        counts[r][c]
        + Cardinality({rc \in (0..(get_height(strip) - 1)) \X (0..(get_width(strip) - 1)) :
                          DestRow(height_so_far, rc[1]) = r - 1 /\ rc[2] = c - 1})]]

\* Lines 189-193: the sizes, the new image, current_height = 0.
\* ordered_strips[0] raises IndexError on an empty list.
MergeBegin ==
    /\ pc = "built"
    /\ IF Len(ordered) = 0
       THEN /\ pc' = "raised"
            /\ exc' = "IndexError"
            /\ UNCHANGED MergeVars
       ELSE LET total_height == sum(Heights(ordered))
                width == get_width(ordered[1])
            IN /\ final_image' = Image(width, total_height)
               /\ writes' = [r \in 1..total_height |-> [c \in 1..width |-> 0]]
               /\ current_height' = 0
               /\ k' = 1
               /\ pc' = "merging"
               /\ UNCHANGED exc
    /\ UNCHANGED <<image_strips, linked, BuildLocals, ordered, iterations, broke>>
    /\ UNCHANGED <<Outer, CallVars>>

\* Lines 194-198: one strip copied, current_height advanced.
MergeStrip ==
    /\ pc = "merging"
    /\ k <= Len(ordered)
    /\ final_image' = CopyStrip(final_image, ordered[k], current_height)
    /\ writes' = CountWrites(final_image, writes, ordered[k], current_height)
    /\ current_height' = current_height + get_height(ordered[k])
    /\ k' = k + 1
    /\ UNCHANGED <<image_strips, linked, BuildLocals, ordered, pc, exc, iterations, broke>>
    /\ UNCHANGED <<Outer, CallVars>>

\* Line 199: return final_image.
MergeReturn ==
    /\ pc = "merging"
    /\ k > Len(ordered)
    /\ pc' = "merged"
    /\ UNCHANGED <<image_strips, linked, BuildLocals, ordered, exc, iterations, broke>>
    /\ UNCHANGED <<Outer, MergeVars, CallVars>>

\* The caller keeps the image and runs build_from_bottom and merge_ordered_strips
\* again on the list object it passed the first time (main, lines 224-226, twice).
Rerun ==
    /\ pc = "merged"
    /\ run = 1
    /\ run' = 2
    /\ first_image' = final_image
    /\ pc' = "find_bottom"
    /\ linked' = NoList
    /\ bottom_strip' = None
    /\ best_match' = None
    /\ iterations' = 0
    /\ broke' = FALSE
    /\ UNCHANGED <<pixels, input, image_strips, ordered, exc>>
    /\ UNCHANGED <<MergeVars, CallVars>>

\* ------------------------------------------------------------ the inputs
Ids(n) == [i \in 1..n |-> i]
SolidRow(p, width) == [c \in 1..width |-> p]

\* The ordering reads only a strip's first and last row (lines 113, 117, 144,
\* 146): a strip for every pair of a first-row and a last-row colour, of one row
\* when the two are the same row and of two rows otherwise.
Palette == {Black, Gray, White}
StripFamily ==
    {<<SolidRow(p, RowWidth)>> : p \in Palette}
    \cup UNION {{<<SolidRow(t, RowWidth), SolidRow(b, RowWidth)>> : b \in Palette \ {t}} : t \in Palette}

NoCall == [fn |-> "none", rowA |-> <<>>, rowB |-> <<>>, current |-> None, strips |-> <<>>]

Idle ==
    /\ linked = NoList
    /\ bottom_strip = None
    /\ best_match = None
    /\ final_image = NoImage
    /\ writes = <<>>
    /\ current_height = 0
    /\ k = 0
    /\ exc = NoExc
    /\ run = 1
    /\ first_image = NoImage
    /\ iterations = 0
    /\ broke = FALSE

\* main: a list of 1..MaxStrips distinct strip objects handed to build_from_bottom.
Init ==
    /\ \E n \in 1..MaxStrips :
        /\ pixels \in [1..n -> StripFamily]
        /\ input = Ids(n)
    /\ image_strips = input
    /\ ordered = <<>>
    /\ pc = "find_bottom"
    /\ Idle
    /\ call = NoCall
    /\ ret = Returned(None)

Next ==
    \/ FindBottom
    \/ RemoveBottom
    \/ NewList
    \/ LoopHead
    \/ Prepend
    \/ RemoveMatch
    \/ Return
    \/ MergeBegin
    \/ MergeStrip
    \/ MergeReturn
    \/ Rerun

Spec == Init /\ [][Next]_vars

\* --------------------------------------------- the three-strip scenario
\* Three strips of one row of two pixels: black, white and a gray, in any list
\* order.  (128, 128, 128) is the usual gray; the darker and lighter levels show
\* what decides the anchor.
GrayLevels == {1, 64, 127, 128, 192, 254}
Orderings(S) == {f \in [1..Cardinality(S) -> S] : \A i, j \in DOMAIN f : f[i] = f[j] => i = j}
OneRowStrip(p) == <<<<p, p>>>>

InitScenario ==
    /\ \E level \in GrayLevels :
        pixels \in Orderings({OneRowStrip(Black), OneRowStrip(White), OneRowStrip(GrayOf(level))})
    /\ input = Ids(Len(pixels))
    /\ image_strips = input
    /\ ordered = <<>>
    /\ pc = "find_bottom"
    /\ Idle
    /\ call = NoCall
    /\ ret = Returned(None)

SpecScenario == InitScenario /\ [][Next]_vars

\* ------------------------------------------ merge_ordered_strips, called
\* Any list of at most MaxStrips strips of one width.  merge copies pixels
\* without reading them, so every pixel carries its strip, row and column.
Tagged(strip, height, width) ==
    [row \in 1..height |-> [col \in 1..width |-> Pixel(strip, row, col)]]

InitMerge ==
    /\ \E n \in 0..MaxStrips :
        /\ \E width \in 1..MaxWidth :
            \E heights \in [1..n -> 1..MaxHeight] :
                pixels = [i \in 1..n |-> Tagged(i, heights[i], width)]
        /\ ordered \in Orderings(1..n)
    /\ input = ordered
    /\ image_strips = <<>>
    /\ pc = "built"
    /\ Idle
    /\ call = NoCall
    /\ ret = Returned(None)

NextMerge ==
    \/ MergeBegin
    \/ MergeStrip
    \/ MergeReturn

SpecMerge == InitMerge /\ [][NextMerge]_vars

\* ------------------------------------------- the pure functions, called
RowPalette == {Black, Gray, White, Red, Blue}
Rows == UNION {[1..width -> RowPalette] : width \in 0..MaxWidth}

NotBuilding == <<input, image_strips, linked, BuildLocals, ordered, exc, iterations, broke>>

InitCalls ==
    /\ \/ /\ pixels = <<>>
          /\ \E rowA \in Rows, rowB \in Rows :
                call = [fn |-> "rows_comparison", rowA |-> rowA, rowB |-> rowB,
                        current |-> None, strips |-> <<>>]
       \/ \E n \in 0..MaxStrips :
            /\ pixels \in [1..n -> StripFamily]
            /\ call = [fn |-> "find_bottom_strip", rowA |-> <<>>, rowB |-> <<>>,
                       current |-> None, strips |-> Ids(n)]
       \/ \E n \in 1..MaxStrips :
            /\ pixels \in [1..n -> StripFamily]
            /\ call = [fn |-> "find_most_similar_strip_for_upwards", rowA |-> <<>>,
                       rowB |-> <<>>, current |-> 1,
                       strips |-> [i \in 1..(n - 1) |-> i + 1]]
    /\ ret = Returned(None)
    /\ input = <<>>
    /\ image_strips = <<>>
    /\ ordered = <<>>
    /\ pc = "call"
    /\ Idle

CallRowsComparison ==
    /\ pc = "call"
    /\ call.fn = "rows_comparison"
    /\ ret' = Returned(rows_comparison(call.rowA, call.rowB))
    /\ pc' = "returned"
    /\ UNCHANGED <<Outer, MergeVars, NotBuilding, call>>

CallFindBottomStrip ==
    /\ pc = "call"
    /\ call.fn = "find_bottom_strip"
    /\ ret' = find_bottom_strip(call.strips)
    /\ pc' = "returned"
    /\ UNCHANGED <<Outer, MergeVars, NotBuilding, call>>

CallFindMostSimilar ==
    /\ pc = "call"
    /\ call.fn = "find_most_similar_strip_for_upwards"
    /\ ret' = Returned(find_most_similar_strip_for_upwards(call.current, call.strips))
    /\ pc' = "returned"
    /\ UNCHANGED <<Outer, MergeVars, NotBuilding, call>>

NextCalls ==
    \/ CallRowsComparison
    \/ CallFindBottomStrip
    \/ CallFindMostSimilar

SpecCalls == InitCalls /\ [][NextCalls]_vars

\* ======================================================== the properties
Count(list, x) == Cardinality({i \in 1..Len(list) : list[i] = x})
\* How often strip s is held by the Ordered Sequence and the Working Set together.
InSequence(s) == Count(to_list(linked), s)
InWorkingSet(s) == Count(image_strips, s)
FirstRun == run = 1 /\ Len(input) >= 2

\* m(i) of the selector: the least distance from strip i's last row to another
\* strip's first row.
BottomScore(strips, i) ==
    LET S == {rows_comparison(LastRow(strips[i]), FirstRow(strips[j])) : j \in (1..Len(strips)) \ {i}}
    IN CHOOSE m \in S : \A x \in S : m <= x
MaximinIndex(strips) ==
    LET m == [i \in 1..Len(strips) |-> BottomScore(strips, i)]
    IN CHOOSE i \in 1..Len(strips) :
        /\ \A j \in 1..Len(strips) : m[j] <= m[i]
        /\ \A j \in 1..(i - 1) : m[j] < m[i]

UpDistance(current, candidate) == rows_comparison(FirstRow(current), LastRow(candidate))
FirstClosestIndex(current, pool) ==
    LET d == [i \in 1..Len(pool) |-> UpDistance(current, pool[i])]
    IN CHOOSE i \in 1..Len(pool) :
        /\ \A j \in 1..Len(pool) : d[i] <= d[j]
        /\ \A j \in 1..(i - 1) : d[j] > d[i]

\* C1 as stated: in every state of build_from_bottom from the moment the anchor
\* is chosen until it has returned, every input strip is exactly once in the
\* linked list and the working list together, and the returned list holds every
\* input strip exactly once.  The states are taken from the creation of the
\* linked list on (line 168 has run), the reading most favourable to the claim.
C1_PartitionInEveryState ==
    (FirstRun /\ pc \in {"loop", "prepend", "remove_match", "return", "built"})
        => /\ \A s \in 1..Len(input) : InSequence(s) + InWorkingSet(s) = 1
           /\ pc = "built" => (Len(ordered) = Len(input) /\ \A s \in 1..Len(input) : Count(ordered, s) = 1)

\* C1 amended: the partition holds in every such state except the two between
\* paired statements: after line 165 and before 168 the anchor is in neither,
\* after line 176 and before 177 the match is in both; the returned list holds
\* every input strip exactly once.
C1_PartitionBetweenSteps ==
    FirstRun =>
        /\ pc \in {"remove_bottom", "loop", "prepend", "return", "built"}
            => \A s \in 1..Len(input) : InSequence(s) + InWorkingSet(s) = 1
        /\ pc = "new_list"
            => \A s \in 1..Len(input) :
                /\ InSequence(s) = 0
                /\ InWorkingSet(s) = (IF s = bottom_strip THEN 0 ELSE 1)
        /\ pc = "remove_match"
            => \A s \in 1..Len(input) :
                IF s = best_match THEN InSequence(s) = 1 /\ InWorkingSet(s) = 1
                ELSE InSequence(s) + InWorkingSet(s) = 1
        /\ pc \in {"built", "merging", "merged"}
            => (Len(ordered) = Len(input) /\ \A s \in 1..Len(input) : Count(ordered, s) = 1)

C1_Witness ==
    /\ FirstRun
    /\ Len(input) = 3
    /\ pc = "built"
    /\ iterations = 2
    /\ Len(ordered) = 3

\* C2 as stated: the three-strip scenario returns [black, gray, white], white
\* being the anchor, and the merged image is 3 rows high.
Shade(s) == pixels[s][1][1]
ScenarioGray == CHOOSE p \in {Shade(s) : s \in 1..Len(pixels)} : p # Black /\ p # White
Shades(list) == [i \in 1..Len(list) |-> Shade(list[i])]

C2_WhiteIsAnchor ==
    /\ (run = 1 /\ pc \in {"built", "merging", "merged"})
        => (Shades(ordered) = <<Black, ScenarioGray, White>> /\ Shade(bottom_strip) = White)
    /\ (run = 1 /\ pc = "merged") => final_image.height = 3

\* C2 amended: with a gray of level at most 127 the order is [black, gray, white]
\* and white is the anchor; with a gray of level 128 or more (the usual gray) the
\* order is [white, gray, black] and black is the anchor; the merged image is 3
\* rows high either way.
C2_AnchorIsFarthestFromGray ==
    /\ (run = 1 /\ pc \in {"built", "merging", "merged"})
        => IF ScenarioGray.r <= 127
           THEN Shades(ordered) = <<Black, ScenarioGray, White>> /\ Shade(bottom_strip) = White
           ELSE Shades(ordered) = <<White, ScenarioGray, Black>> /\ Shade(bottom_strip) = Black
    /\ (run = 1 /\ pc = "merged") => final_image.height = 3

C2_Witness ==
    /\ run = 1
    /\ pc = "merged"
    /\ ScenarioGray = Gray
    /\ Shades(ordered) = <<White, Gray, Black>>
    /\ final_image.height = 3

\* C3 as stated: build_from_bottom on a list of one strip raises nothing and
\* returns that strip alone, and the merge of it is the strip unchanged.
C3_SingleStripReturned ==
    (run = 1 /\ Len(input) = 1)
        => /\ pc # "raised"
           /\ pc \in {"built", "merging", "merged"} => ordered = input
           /\ pc = "merged" => final_image.px = pixels[input[1]]

\* C4 as stated: the pipeline run again on the list object of the first run
\* ends with an image identical to the first run's.
C4_RerunSameImage ==
    (run = 2 /\ pc \in {"merged", "raised"})
        => (pc = "merged" /\ final_image = first_image)

\* C5: called on two or more strips, find_bottom_strip returns the strip at the
\* least index that maximises m(i): a member of the list, never None, the first
\* of the maximisers.
C5_BottomIsFirstMaximin ==
    (pc = "returned" /\ call.fn = "find_bottom_strip" /\ Len(call.strips) >= 2)
        => /\ ret.exc = NoExc
           /\ ret.val # None
           /\ Contains(call.strips, ret.val)
           /\ ret.val = call.strips[MaximinIndex(call.strips)]

\* Two strips tie on the maximum and the earlier one is returned.
C5_Witness ==
    /\ pc = "returned"
    /\ call.fn = "find_bottom_strip"
    /\ Len(call.strips) = 3
    /\ ret.val = 2
    /\ BottomScore(call.strips, 3) = BottomScore(call.strips, 2)
    /\ BottomScore(call.strips, 1) < BottomScore(call.strips, 2)

\* C6: find_most_similar_strip_for_upwards returns None exactly when the pool is
\* empty; otherwise the pool's element at the least index that minimises the
\* distance from the current strip's first row to the candidate's last row; a
\* candidate at distance 0 in the pool means the returned one is at distance 0.
C6_UpwardsIsFirstClosest ==
    (pc = "returned" /\ call.fn = "find_most_similar_strip_for_upwards")
        => /\ ret.exc = NoExc
           /\ (ret.val = None) <=> (Len(call.strips) = 0)
           /\ Len(call.strips) > 0
                => ret.val = call.strips[FirstClosestIndex(call.current, call.strips)]
           /\ (\E i \in 1..Len(call.strips) : UpDistance(call.current, call.strips[i]) = 0)
                => UpDistance(call.current, ret.val) = 0

\* The second of two candidates is at distance 0 and is the one returned.
C6_Witness ==
    /\ pc = "returned"
    /\ call.fn = "find_most_similar_strip_for_upwards"
    /\ Len(call.strips) = 2
    /\ ret.val = call.strips[2]
    /\ UpDistance(call.current, call.strips[2]) = 0
    /\ UpDistance(call.current, call.strips[1]) > 0

\* C7: the merged image is as high as the strips together and as wide as the
\* first; strip i's pixel (r, c) is at row off_i + r, column c, off_i being the
\* height of the strips before it; every pixel of the image was written once.
Offset(strips, i) == sum([j \in 1..(i - 1) |-> Len(pixels[strips[j]])])

C7_MergeStacksStrips ==
    (pc = "merged" /\ Len(ordered) > 0)
        => /\ final_image.height = Offset(ordered, Len(ordered) + 1)
           /\ final_image.width = Len(pixels[ordered[1]][1])
           /\ Len(final_image.px) = final_image.height
           /\ \A r \in 1..final_image.height : Len(final_image.px[r]) = final_image.width
           /\ \A i \in 1..Len(ordered) :
                \A r \in 1..Len(pixels[ordered[i]]) :
                    \A c \in 1..Len(pixels[ordered[i]][r]) :
                        final_image.px[Offset(ordered, i) + r][c] = pixels[ordered[i]][r][c]
           /\ \A r \in 1..final_image.height :
                \A c \in 1..final_image.width : writes[r][c] = 1

\* Three strips, the second two rows high, the third below both.
C7_Witness ==
    /\ pc = "merged"
    /\ Len(ordered) = 3
    /\ Len(pixels[ordered[2]]) = 2
    /\ final_image.height >= 4
    /\ final_image.width = 2
    /\ final_image.px[final_image.height][2] = pixels[ordered[3]][Len(pixels[ordered[3]])][2]

\* C8: on rows of equal length rows_comparison is non-negative, symmetric, and
\* zero exactly when the rows are the same pixel for pixel.
C8_DistanceSymmetricZeroIffEqual ==
    (pc = "returned" /\ call.fn = "rows_comparison" /\ Len(call.rowA) = Len(call.rowB))
        => /\ ret.val >= 0
           /\ ret.val = rows_comparison(call.rowB, call.rowA)
           /\ (ret.val = 0) <=> (\A i \in 1..Len(call.rowA) :
                                    /\ call.rowA[i].r = call.rowB[i].r
                                    /\ call.rowA[i].g = call.rowB[i].g
                                    /\ call.rowA[i].b = call.rowB[i].b)

\* Two rows of two pixels that differ in the second pixel's blue alone.
C8_Witness ==
    /\ pc = "returned"
    /\ call.fn = "rows_comparison"
    /\ call.rowA = <<Red, Black>>
    /\ call.rowB = <<Red, Blue>>
    /\ ret.val = 65025

\* C9: the returned list is the greedy chain: the anchor is the selector's
\* choice on the input and is the tail from the list's creation on; every other
\* element is the first closest match, among the input strips not yet placed
\* (in input order), for the element directly below it.
Unplaced(list, i) ==
    SelectSeq(input, LAMBDA s : \A j \in (i + 1)..Len(list) : list[j] # s)

C9_ResultIsGreedyChain ==
    FirstRun =>
        /\ pc \in {"loop", "prepend", "remove_match", "return"}
            => /\ linked.tail # None
               /\ linked.nodes[linked.tail].strip = input[MaximinIndex(input)]
               /\ linked.nodes[linked.tail].next = None
        /\ pc = "built"
            => /\ Len(ordered) = Len(input)
               /\ ordered[Len(ordered)] = input[MaximinIndex(input)]
               /\ \A i \in 1..(Len(ordered) - 1) :
                    LET pool == Unplaced(ordered, i)
                    IN ordered[i] = pool[FirstClosestIndex(ordered[i + 1], pool)]

\* A chain of three that ends in the input's first strip and reverses the rest.
C9_Witness ==
    /\ FirstRun
    /\ pc = "built"
    /\ ordered = <<3, 2, 1>>
    /\ UpDistance(1, 2) < UpDistance(1, 3)

\* C10: the chaining loop runs exactly n-1 iterations, the working list one
\* shorter after each, and never leaves by the break: the list's length is the
\* number of iterations left, and the loop is left with n-1 iterations done and
\* the list empty.
C10_LoopRunsToEmpty ==
    FirstRun =>
        /\ ~broke
        /\ pc # "raised"
        /\ pc \in {"loop", "prepend", "remove_match"}
            => Len(image_strips) = Len(input) - 1 - iterations
        /\ pc \in {"prepend", "remove_match"} => best_match # None
        /\ pc \in {"return", "built", "merging", "merged"}
            => (iterations = Len(input) - 1 /\ Len(image_strips) = 0)

C10_Witness ==
    /\ FirstRun
    /\ Len(input) = 3
    /\ pc = "return"
    /\ iterations = 2
    /\ image_strips = <<>>

====
